---- MODULE Spec2Model ----
(***************************************************************************)
(* Model of political_timelines.py: the YearMonth decoder                  *)
(* (year_month_to_date), the interval complement                           *)
(* (PoliticalTimelinePlotter._complement_periods) and the part of the      *)
(* renderer that turns intervals into shaded spans and bars                *)
(* (_draw_periods, _plot_timeline, plot_all_scenarios).                    *)
(*                                                                         *)
(* A YearMonth is a Python float written as the literal YYYY.MM.  It is    *)
(* kept here as the literal [year, mm] and turned into the IEEE-754 double *)
(* the interpreter reads by FloatOf.  A double x with 1024 <= x < 2048 is  *)
(* a multiple of 2^-42, so it is held exactly as three integers            *)
(*      x = ip + (hi * 2^21 + lo) / 2^42,   0 <= hi, lo < 2^21             *)
(* (two 21-bit limbs: every intermediate value stays below 2^31).          *)
(***************************************************************************)
EXTENDS Integers, Sequences, FiniteSets, TLC

\* ------------------------------------------------------------------------
\* Bounds of the model
\* ------------------------------------------------------------------------

\* longest list of periods handed to _complement_periods
MaxLen == 2

\* the dates of Spec are the first days of FirstCode + 0 .. MaxDate months
MaxDate == 4

\* the literals of SpecDecode have the years 2005 .. 2005 + YearSpan
YearSpan == 1

\* ------------------------------------------------------------------------
\* Python values
\* ------------------------------------------------------------------------

\* the literal YYYY.MM as written in the source text
YM(y, m) == [year |-> y, mm |-> m]

\* datetime(year, month, day)
datetime(y, m, d) == [year |-> y, month |-> m, day |-> d]

\* Python's None for an omitted start_date / end_date
None == [year |-> 0, month |-> 0, day |-> 0]

\* the ValueError datetime() raises, as the value of the call that raised
ValueError == [year |-> -1, month |-> -1, day |-> -1]

\* datetime.__lt__ / __gt__ for dates at midnight: lexicographic
DateLT(a, b) ==
    \/ a.year < b.year
    \/ a.year = b.year /\ a.month < b.month
    \/ a.year = b.year /\ a.month = b.month /\ a.day < b.day

DateGT(a, b) == DateLT(b, a)

\* ------------------------------------------------------------------------
\* IEEE-754 doubles in [1024, 2048) and in [0, 128), exactly
\* ------------------------------------------------------------------------

Limb == 2^21

\* carries of the two limbs
Norm(ip, hi, lo) ==
    LET lo2 == lo % Limb
        hi1 == hi + (lo \div Limb)
        hi2 == hi1 % Limb
    IN  [ip |-> ip + (hi1 \div Limb), hi |-> hi2, lo |-> lo2]

\* the double nearest to the decimal literal YYYY.MM (round to nearest, ties
\* to even), by long division of (100 * YYYY + MM) * 2^42 by 100
FloatOf(lit) ==
    LET n  == lit.year * 100 + lit.mm
        q2 == n \div 100
        r2 == n % 100
        q1 == (r2 * Limb) \div 100
        r1 == (r2 * Limb) % 100
        q0 == (r1 * Limb) \div 100
        r0 == (r1 * Limb) % 100
        up == 2 * r0 > 100 \/ (2 * r0 = 100 /\ q0 % 2 = 1)
    IN  Norm(q2, q1, q0 + (IF up THEN 1 ELSE 0))

\* int(x) for x >= 0: truncation
IntOf(x) == x.ip

\* x - year for year = int(x): exact in double arithmetic (Sterbenz)
FloatSubInt(x, year) == [ip |-> x.ip - year, hi |-> x.hi, lo |-> x.lo]

\* f * 100 for 0 <= f < 1: the product is an integer multiple of 2^-42
\* below 2^49 * 2^-42, so the double product is exact
FloatMul100(f) == Norm(f.ip * 100, f.hi * 100, f.lo * 100)

\* round(x): nearest integer, ties to the even one
RoundHalfEven(x) ==
    LET half == Limb \div 2
    IN  IF x.hi > half \/ (x.hi = half /\ x.lo > 0) THEN x.ip + 1
        ELSE IF x.hi = half /\ x.lo = 0 /\ x.ip % 2 = 1 THEN x.ip + 1
        ELSE x.ip

\* mutant of RoundToInt: int(...) without round(), which truncates
TruncateToInt(x) == x.ip

\* int(round(...)) at line 11
RoundToInt(x) == RoundHalfEven(x)

\* mutant of MakeDate: the month clamped into 1..12 instead of an error
MakeDateClamped(year, month) ==
    datetime(year, IF month < 1 THEN 1 ELSE IF month > 12 THEN 12 ELSE month, 1)

\* datetime(year, month, 1): raises ValueError outside MINYEAR..MAXYEAR or
\* month outside 1..12
MakeDate(year, month) ==
    IF year >= 1 /\ year <= 9999 /\ month >= 1 /\ month <= 12
    THEN datetime(year, month, 1)
    ELSE ValueError

\* year_month_to_date(year_month), on the double year_month
year_month_to_date(year_month) ==
    LET year  == IntOf(year_month)
        month == RoundToInt(FloatMul100(FloatSubInt(year_month, year)))
    IN  MakeDate(year, month)

\* a call site that passes the literal lit
DateOfLiteral(lit) == year_month_to_date(FloatOf(lit))

\* ------------------------------------------------------------------------
\* _complement_periods
\* ------------------------------------------------------------------------

\* mutant of DefaultEnd: the end of the last term instead of 2030.08
DefaultEndOfTerms == YM(2031, 11)

\* the default window of lines 53-54
DefaultStart == YM(2000, 1)

DefaultEnd == YM(2030, 8)

\* "start_date or year_month_to_date(...)": a datetime is always truthy
OrDefault(date, lit) == IF date = None THEN DateOfLiteral(lit) ELSE date

\* the list comprehension of line 57
ConvertPeriods(ps) ==
    [n \in 1..Len(ps) |-> <<DateOfLiteral(ps[n][1]), DateOfLiteral(ps[n][2])>>]

\* whether a call of year_month_to_date at line 57 raises
Raises(ps) ==
    \E n \in 1..Len(ps) : \E e \in 1..2 : DateOfLiteral(ps[n][e]) = ValueError

\* insertion of p behind every element whose start is not greater: sorted()
\* is stable and its key is x[0] alone
RECURSIVE InsertByStart(_, _)
InsertByStart(sorted, p) ==
    IF sorted = <<>> THEN <<p>>
    ELSE IF DateLT(p[1], Head(sorted)[1]) THEN <<p>> \o sorted
    ELSE <<Head(sorted)>> \o InsertByStart(Tail(sorted), p)

RECURSIVE SortFrom(_, _)
SortFrom(sorted, rest) ==
    IF rest = <<>> THEN sorted
    ELSE SortFrom(InsertByStart(sorted, Head(rest)), Tail(rest))

\* mutant of SortedByStart: the list swept in the order given
Unsorted(ps) == ps

\* sorted(..., key=lambda x: x[0]) of lines 56-59
SortedByStart(ps) == SortFrom(<<>>, ps)

\* mutant of EmitsGap: >= in place of >
EmitsGapOrEqual(period_start, cursor) == ~DateLT(period_start, cursor)

\* line 65: is a gap emitted in front of the period
EmitsGap(period_start, cursor) == DateGT(period_start, cursor)

\* mutant of AdvanceCursor: the assignment of line 68 without its guard
AdvanceCursorAlways(period_end, cursor) == period_end

\* lines 67-68: the cursor after the period
AdvanceCursor(period_end, cursor) ==
    IF DateGT(period_end, cursor) THEN period_end ELSE cursor

\* the body of the loop of lines 64-68 on the pair (complement, current_start)
SweepStep(acc, period) ==
    [complement |->
        IF EmitsGap(period[1], acc.current_start)
        THEN Append(acc.complement, <<acc.current_start, period[1]>>)
        ELSE acc.complement,
     current_start |-> AdvanceCursor(period[2], acc.current_start)]

\* mutant of FinishSweep: the tail of lines 70-71 left out
FinishSweepNoTail(acc, end) == acc.complement

\* lines 70-73: the tail of the window and the returned list
FinishSweep(acc, end) ==
    IF DateLT(acc.current_start, end)
    THEN Append(acc.complement, <<acc.current_start, end>>)
    ELSE acc.complement

RECURSIVE SweepAll(_, _)
SweepAll(acc, ps) ==
    IF ps = <<>> THEN acc ELSE SweepAll(SweepStep(acc, Head(ps)), Tail(ps))

\* _complement_periods(periods, start_date, end_date) as a function of its
\* arguments; ValueError when a conversion raises
complement_periods(ps, start, end) ==
    LET s == OrDefault(start, DefaultStart)
        e == OrDefault(end, DefaultEnd)
    IN  IF Raises(ps) THEN ValueError
        ELSE FinishSweep(
                 SweepAll([complement |-> <<>>, current_start |-> s],
                          SortedByStart(ConvertPeriods(ps))),
                 e)

\* ------------------------------------------------------------------------
\* _calculate_days_since_reference and _draw_periods
\* ------------------------------------------------------------------------

IsLeap(y) == y % 4 = 0 /\ (y % 100 # 0 \/ y % 400 = 0)

DaysInMonth(y, m) ==
    IF m = 2 THEN (IF IsLeap(y) THEN 29 ELSE 28)
    ELSE IF m \in {4, 6, 9, 11} THEN 30 ELSE 31

RECURSIVE DaysBeforeMonth(_, _)
DaysBeforeMonth(y, m) ==
    IF m <= 1 THEN 0 ELSE DaysBeforeMonth(y, m - 1) + DaysInMonth(y, m - 1)

DaysBeforeYear(y) ==
    LET y1 == y - 1
    IN  y1 * 365 + (y1 \div 4) - (y1 \div 100) + (y1 \div 400)

\* date.toordinal(), which datetime subtraction rests on
ToOrdinal(d) == DaysBeforeYear(d.year) + DaysBeforeMonth(d.year, d.month) + d.day

\* self.reference_date of line 39
reference_date == datetime(2000, 1, 1)

\* _calculate_days_since_reference(date, reference): (date - reference).days
calculate_days_since_reference(date, reference) ==
    ToOrdinal(date) - ToOrdinal(reference)

CONSISTENT_COLOR == "#A8E6CF"

INCONSISTENT_COLOR == "#FF0000"

\* the axvspan of line 87 and whether lines 89-103 label it:
\* (end.year - start.year) + (end.month - start.month) / 12 > 1
DrawnSpan(period, color) ==
    [lo |-> calculate_days_since_reference(period[1], reference_date),
     hi |-> calculate_days_since_reference(period[2], reference_date),
     color |-> color,
     labelled |-> 12 * (period[2].year - period[1].year)
                     + (period[2].month - period[1].month) > 12]

\* self.position_mapping of line 37
position_mapping(position) == IF position = "Prezydent" THEN 0 ELSE 1

\* the barh of lines 138-145 and the choice of line 148
DrawnBar(term) ==
    LET start_days == calculate_days_since_reference(term.start, reference_date)
        end_days   == calculate_days_since_reference(term.end, reference_date)
    IN  [row |-> position_mapping(term.position),
         left |-> start_days,
         width |-> end_days - start_days,
         party |-> term.party,
         full_name |-> term.position = "Prezydent"]

\* ------------------------------------------------------------------------
\* The scenarios of plot_all_scenarios
\* ------------------------------------------------------------------------

Term(name, start, end, party, position) ==
    [name |-> name, start |-> start, end |-> end, party |-> party,
     position |-> position]

\* lines 249-254 (with the fifth president of each scenario)
Presidents(name5, party5) ==
    << Term("Aleksander Kwasniewski", YM(2000, 1), YM(2005, 12), "Lewica", "Prezydent"),
       Term("Lech Kaczynski", YM(2005, 12), YM(2010, 8), "Prawica", "Prezydent"),
       Term("Bronislaw Komorowski", YM(2010, 8), YM(2015, 8), "Centroprawica", "Prezydent"),
       Term("Andrzej Duda", YM(2015, 8), YM(2025, 8), "Prawica", "Prezydent"),
       Term(name5, YM(2025, 8), YM(2030, 8), party5, "Prezydent"),
       Term("?", YM(2030, 8), YM(2031, 11), "Brak", "Prezydent") >>

\* lines 256-266 (with the party of the last government of each scenario)
Premiers(party11) ==
    << Term("Jerzy Buzek", YM(2000, 1), YM(2001, 10), "Centroprawica", "Premier"),
       Term("Leszek Miller", YM(2001, 10), YM(2004, 5), "Lewica", "Premier"),
       Term("Marek Belka", YM(2004, 5), YM(2005, 10), "Lewica", "Premier"),
       Term("Kazimierz Marcinkiewicz", YM(2005, 10), YM(2006, 7), "Prawica", "Premier"),
       Term("Jaroslaw Kaczynski", YM(2006, 7), YM(2007, 11), "Prawica", "Premier"),
       Term("Donald Tusk", YM(2007, 11), YM(2014, 9), "Centroprawica", "Premier"),
       Term("Ewa Kopacz", YM(2014, 9), YM(2015, 11), "Centroprawica", "Premier"),
       Term("Beata Szydlo", YM(2015, 11), YM(2017, 12), "Prawica", "Premier"),
       Term("Mateusz Morawiecki", YM(2017, 12), YM(2023, 12), "Prawica", "Premier"),
       Term("Donald Tusk", YM(2023, 12), YM(2027, 11), "Centroprawica", "Premier"),
       Term("?", YM(2027, 11), YM(2031, 11), party11, "Premier") >>

\* the alignment periods the four scenarios share (lines 269-272)
SharedConsistent ==
    << <<YM(2001, 10), YM(2005, 10)>>, <<YM(2005, 12), YM(2007, 11)>>,
       <<YM(2010, 8), YM(2015, 8)>>, <<YM(2015, 11), YM(2023, 12)>> >>

\* scenarios[idx]["data"][0] for idx = s - 1
timeline_data(s) ==
    CASE s = 1 -> Presidents("Rafal Trzaskowski", "Centroprawica") \o Premiers("Centroprawica")
      [] s = 2 -> Presidents("Rafal Trzaskowski", "Centroprawica") \o Premiers("Prawica")
      [] s = 3 -> Presidents("Karol Nawrocki", "Prawica") \o Premiers("Centroprawica")
      [] s = 4 -> Presidents("Karol Nawrocki", "Prawica") \o Premiers("Prawica")

\* scenarios[idx]["data"][1] for idx = s - 1
consistent_periods(s) ==
    CASE s = 1 -> Append(SharedConsistent, <<YM(2025, 8), YM(2030, 8)>>)
      [] s = 2 -> Append(SharedConsistent, <<YM(2025, 8), YM(2027, 11)>>)
      [] s = 3 -> SharedConsistent
      [] s = 4 -> Append(SharedConsistent, <<YM(2027, 11), YM(2030, 8)>>)

\* len(scenarios)
NumScenarios == 4

\* the list comprehension of lines 115-118
ConvertTerms(data) ==
    [n \in 1..Len(data) |->
        [name |-> data[n].name, start |-> DateOfLiteral(data[n].start),
         end |-> DateOfLiteral(data[n].end), party |-> data[n].party,
         position |-> data[n].position]]

\* whether a conversion of lines 115-124 raises
PlotRaises(data, consistent) ==
    \/ \E n \in 1..Len(data) :
          ValueError \in {DateOfLiteral(data[n].start), DateOfLiteral(data[n].end)}
    \/ Raises(consistent)

\* ------------------------------------------------------------------------
\* State
\* ------------------------------------------------------------------------

VARIABLES
    periods,        \* argument of _complement_periods: pairs of literals
    start_date,     \* argument, then the local of line 53
    end_date,       \* argument, then the local of line 54
    periods_dt,     \* local of line 56
    k,              \* position of the for loop of line 64 in periods_dt
    current_start,  \* local of line 62
    complement,     \* local of line 61
    result,         \* the value returned at line 73 (None before the return)
    pc,             \* where the program is
    scen,           \* idx + 1 of the loop of line 380; 0 outside it
    converted_data,             \* local of line 115
    consistent_periods_dt,      \* local of line 121
    inconsistent_periods_dt,    \* local of line 127
    spans,          \* the axvspans drawn on the current axes
    bars,           \* the barh bars drawn on the current axes
    j,              \* position of the drawing loop (lines 83, 134)
    xlim            \* the x limits of the current axes (line 172)

callvars == <<periods, start_date, end_date, periods_dt, k, current_start,
              complement, result>>

plotvars == <<scen, converted_data, consistent_periods_dt,
              inconsistent_periods_dt, spans, bars, j, xlim>>

vars == <<callvars, pc, plotvars>>

\* ------------------------------------------------------------------------
\* Inputs
\* ------------------------------------------------------------------------

\* the first YearMonth of Spec's dates
FirstCode == YM(2000, 10)

\* the literal n months after lit
AddMonths(lit, n) ==
    LET m0 == (lit.mm - 1) + n
    IN  YM(lit.year + (m0 \div 12), (m0 % 12) + 1)

Codes == {AddMonths(FirstCode, n) : n \in 0..MaxDate}

CodeOrd(lit) == lit.year * 12 + (lit.mm - 1)

\* well-formed intervals (start <= end) over Codes
Intervals == {p \in Codes \X Codes : CodeOrd(p[1]) <= CodeOrd(p[2])}

RECURSIVE SeqsUpTo(_, _)
SeqsUpTo(S, n) ==
    IF n = 0 THEN {<<>>}
    ELSE LET shorter == SeqsUpTo(S, n - 1)
         IN  shorter \cup {Append(q, e) : q \in {r \in shorter : Len(r) = n - 1},
                                          e \in S}

Dates == {DateOfLiteral(c) : c \in Codes}

\* every two-digit encoding YYYY.00 .. YYYY.99 of the years of SpecDecode
DecodeCodes == {YM(y, m) : y \in 2005..(2005 + YearSpan), m \in 0..99}

NoPlot ==
    /\ scen = 0
    /\ converted_data = <<>>
    /\ consistent_periods_dt = <<>>
    /\ inconsistent_periods_dt = <<>>
    /\ spans = <<>>
    /\ bars = <<>>
    /\ j = 1
    /\ xlim = <<0, 1>>

NoCall ==
    /\ periods_dt = <<>>
    /\ k = 1
    /\ current_start = None
    /\ complement = <<>>
    /\ result = None

\* a call _complement_periods(periods, start_date, end_date) on well-formed
\* intervals and an explicit window with start_date <= end_date
Init ==
    /\ periods \in SeqsUpTo(Intervals, MaxLen)
    /\ start_date \in Dates
    /\ end_date \in {d \in Dates : ~DateLT(d, start_date)}
    /\ NoCall
    /\ pc = "call"
    /\ NoPlot

\* a call _complement_periods([(a, b)]) on any two encodings, default window
InitDecode ==
    /\ periods \in {<< <<a, b>> >> : a \in DecodeCodes, b \in DecodeCodes}
    /\ start_date = None
    /\ end_date = None
    /\ NoCall
    /\ pc = "call"
    /\ NoPlot

\* plot_all_scenarios() on a new plotter
InitPlot ==
    /\ periods = <<>>
    /\ start_date = None
    /\ end_date = None
    /\ NoCall
    /\ pc = "plot"
    /\ scen = 1
    /\ converted_data = <<>>
    /\ consistent_periods_dt = <<>>
    /\ inconsistent_periods_dt = <<>>
    /\ spans = <<>>
    /\ bars = <<>>
    /\ j = 1
    /\ xlim = <<0, 1>>

\* ------------------------------------------------------------------------
\* Actions of _complement_periods
\* ------------------------------------------------------------------------

\* lines 53-62: the defaults, the conversion and sort, the empty result and
\* the cursor; a ValueError from year_month_to_date leaves the call
Convert ==
    /\ pc = "call"
    /\ IF Raises(periods)
       THEN /\ pc' = "raised"
            /\ UNCHANGED callvars
       ELSE /\ start_date' = OrDefault(start_date, DefaultStart)
            /\ end_date' = OrDefault(end_date, DefaultEnd)
            /\ periods_dt' = SortedByStart(ConvertPeriods(periods))
            /\ complement' = <<>>
            /\ current_start' = start_date'
            /\ k' = 1
            /\ pc' = "loop"
            /\ UNCHANGED <<periods, result>>
    /\ UNCHANGED plotvars

\* lines 64-68: one iteration of the loop
LoopStep ==
    /\ pc = "loop"
    /\ k <= Len(periods_dt)
    /\ LET acc == SweepStep([complement |-> complement,
                             current_start |-> current_start], periods_dt[k])
       IN  /\ complement' = acc.complement
           /\ current_start' = acc.current_start
    /\ k' = k + 1
    /\ UNCHANGED <<periods, start_date, end_date, periods_dt, result, pc>>
    /\ UNCHANGED plotvars

\* lines 70-73: the tail and the return
Finish ==
    /\ pc = "loop"
    /\ k > Len(periods_dt)
    /\ complement' = FinishSweep([complement |-> complement,
                                  current_start |-> current_start], end_date)
    /\ result' = complement'
    /\ pc' = "returned"
    /\ UNCHANGED <<periods, start_date, end_date, periods_dt, k, current_start>>
    /\ UNCHANGED plotvars

\* ------------------------------------------------------------------------
\* Actions of _plot_timeline and plot_all_scenarios
\* ------------------------------------------------------------------------

\* lines 381-386 and 115-127: the call of _plot_timeline on the next axes,
\* its conversions, and the call _complement_periods(consistent_periods)
PlotBegin ==
    /\ pc = "plot"
    /\ scen \in 1..NumScenarios
    /\ IF PlotRaises(timeline_data(scen), consistent_periods(scen))
       THEN /\ pc' = "raised"
            /\ UNCHANGED <<callvars, converted_data, consistent_periods_dt>>
       ELSE /\ converted_data' = ConvertTerms(timeline_data(scen))
            /\ consistent_periods_dt' = ConvertPeriods(consistent_periods(scen))
            /\ periods' = consistent_periods(scen)
            /\ start_date' = None
            /\ end_date' = None
            /\ periods_dt' = <<>>
            /\ k' = 1
            /\ current_start' = None
            /\ complement' = <<>>
            /\ result' = None
            /\ pc' = "call"
    /\ spans' = <<>>
    /\ bars' = <<>>
    /\ UNCHANGED <<scen, inconsistent_periods_dt, j, xlim>>

\* line 127: the assignment of the returned list; line 130 enters _draw_periods
ReturnToPlot ==
    /\ pc = "returned"
    /\ scen \in 1..NumScenarios
    /\ inconsistent_periods_dt' = result
    /\ j' = 1
    /\ pc' = "draw_inconsistent"
    /\ UNCHANGED <<callvars, scen, converted_data, consistent_periods_dt,
                   spans, bars, xlim>>

\* line 130, lines 83-103: one span of the misalignment shading
DrawInconsistent ==
    /\ pc = "draw_inconsistent"
    /\ j <= Len(inconsistent_periods_dt)
    /\ spans' = Append(spans, DrawnSpan(inconsistent_periods_dt[j],
                                        INCONSISTENT_COLOR))
    /\ j' = j + 1
    /\ UNCHANGED <<callvars, pc, scen, converted_data, consistent_periods_dt,
                   inconsistent_periods_dt, bars, xlim>>

\* the loop of line 130 ends; line 131 enters _draw_periods again
DrawInconsistentDone ==
    /\ pc = "draw_inconsistent"
    /\ j > Len(inconsistent_periods_dt)
    /\ j' = 1
    /\ pc' = "draw_consistent"
    /\ UNCHANGED <<callvars, scen, converted_data, consistent_periods_dt,
                   inconsistent_periods_dt, spans, bars, xlim>>

\* line 131, lines 83-103: one span of the alignment shading
DrawConsistent ==
    /\ pc = "draw_consistent"
    /\ j <= Len(consistent_periods_dt)
    /\ spans' = Append(spans, DrawnSpan(consistent_periods_dt[j],
                                        CONSISTENT_COLOR))
    /\ j' = j + 1
    /\ UNCHANGED <<callvars, pc, scen, converted_data, consistent_periods_dt,
                   inconsistent_periods_dt, bars, xlim>>

\* the loop of line 131 ends; line 134 starts the loop over the terms
DrawConsistentDone ==
    /\ pc = "draw_consistent"
    /\ j > Len(consistent_periods_dt)
    /\ j' = 1
    /\ pc' = "terms"
    /\ UNCHANGED <<callvars, scen, converted_data, consistent_periods_dt,
                   inconsistent_periods_dt, spans, bars, xlim>>

\* lines 134-164: the bar of one term
PlotTerm ==
    /\ pc = "terms"
    /\ j <= Len(converted_data)
    /\ bars' = Append(bars, DrawnBar(converted_data[j]))
    /\ j' = j + 1
    /\ UNCHANGED <<callvars, pc, scen, converted_data, consistent_periods_dt,
                   inconsistent_periods_dt, spans, xlim>>

\* lines 166-208: the axes; then the next scenario of the loop of line 380
ConfigureAxes ==
    /\ pc = "terms"
    /\ j > Len(converted_data)
    /\ xlim' = <<calculate_days_since_reference(datetime(2000, 1, 1), reference_date),
                 calculate_days_since_reference(datetime(2032, 1, 1), reference_date)>>
    /\ IF scen < NumScenarios
       THEN scen' = scen + 1 /\ pc' = "plot"
       ELSE scen' = scen /\ pc' = "legend"
    /\ UNCHANGED <<callvars, converted_data, consistent_periods_dt,
                   inconsistent_periods_dt, spans, bars, j>>

\* lines 389-390: the legend and the layout
CreateLegend ==
    /\ pc = "legend"
    /\ pc' = "done"
    /\ UNCHANGED <<callvars, plotvars>>

\* ------------------------------------------------------------------------
\* Specifications
\* ------------------------------------------------------------------------

Next == Convert \/ LoopStep \/ Finish

NextPlot ==
    \/ PlotBegin
    \/ Convert
    \/ LoopStep
    \/ Finish
    \/ ReturnToPlot
    \/ DrawInconsistent
    \/ DrawInconsistentDone
    \/ DrawConsistent
    \/ DrawConsistentDone
    \/ PlotTerm
    \/ ConfigureAxes
    \/ CreateLegend

\* one call of _complement_periods on well-formed intervals
Spec == Init /\ [][Next]_vars

\* one call of _complement_periods on arbitrary two-digit encodings
SpecDecode == InitDecode /\ [][Next]_vars

\* the program: plot_all_scenarios()
SpecPlot == InitPlot /\ [][NextPlot]_vars

\* ------------------------------------------------------------------------
\* Vocabulary of the claims
\* ------------------------------------------------------------------------

\* position of a date on the month axis
Ord(d) == d.year * 12 + (d.month - 1)

\* the months of the half-open interval [iv[1], iv[2])
Points(iv) == Ord(iv[1]) .. (Ord(iv[2]) - 1)

\* the months covered by a list of intervals
Covered(ivs) == UNION {Points(ivs[n]) : n \in 1..Len(ivs)}

\* the months of the window [start_date, end_date)
WindowPoints == Ord(start_date) .. (Ord(end_date) - 1)

\* the input intervals as dates, in the order given
InputDates == ConvertPeriods(periods)

Returned == pc = "returned"

NonEmptyWindow == DateLT(start_date, end_date)

SortedByStartAsc(ivs) ==
    \A n \in 1..(Len(ivs) - 1) : ~DateLT(ivs[n + 1][1], ivs[n][1])

PairwiseDisjoint(ivs) ==
    \A m, n \in 1..Len(ivs) : m # n => Points(ivs[m]) \cap Points(ivs[n]) = {}

InsideWindow(ivs) ==
    \A n \in 1..Len(ivs) :
        /\ ~DateLT(ivs[n][1], start_date)
        /\ ~DateGT(ivs[n][2], end_date)

HasOverlap(ivs) ==
    \E m, n \in 1..Len(ivs) : m # n /\ Points(ivs[m]) \cap Points(ivs[n]) # {}

\* the rearrangements of a list
Rearrangements(ps) ==
    {[n \in 1..Len(ps) |-> ps[f[n]]] : f \in Permutations(1..Len(ps))}

\* the list without its n-th element
Without(ps, n) == SubSeq(ps, 1, n - 1) \o SubSeq(ps, n + 1, Len(ps))

\* ------------------------------------------------------------------------
\* Claims
\* ------------------------------------------------------------------------

\* C1: when the input list is sorted by start, pairwise non-overlapping and
\* inside the window, the returned intervals and the input intervals
\* together cover exactly the window: every month of the window lies in
\* exactly one of the two, nothing lies outside the window, and no returned
\* segment overlaps an input interval.
C1_ComplementTilesWindow ==
    Returned =>
        LET I == InputDates
        IN  (SortedByStartAsc(I) /\ PairwiseDisjoint(I) /\ InsideWindow(I))
            => /\ Covered(result) \cup Covered(I) = WindowPoints
               /\ Covered(result) \cap Covered(I) = {}
               /\ \A m \in 1..Len(result) : \A n \in 1..Len(I) :
                      Points(result[m]) \cap Points(I[n]) = {}

\* C1 witness: two separated, non-empty input intervals inside the window,
\* with a gap between them and one more gap in front of or behind them.
C1_Witness ==
    /\ Returned
    /\ Len(periods) = 2
    /\ LET I == InputDates
       IN  /\ SortedByStartAsc(I)
           /\ PairwiseDisjoint(I)
           /\ InsideWindow(I)
           /\ Points(I[1]) # {}
           /\ Points(I[2]) # {}
           /\ DateLT(I[1][2], I[2][1])
    /\ Len(result) = 2

\* C2: for every list of well-formed intervals, in any order and possibly
\* overlapping, the returned list is sorted ascending by start, its
\* intervals are pairwise disjoint, and every one has start < end.
C2_ResultSortedDisjointNonEmpty ==
    Returned
    => /\ SortedByStartAsc(result)
       /\ PairwiseDisjoint(result)
       /\ \A n \in 1..Len(result) : DateLT(result[n][1], result[n][2])

\* C2 witness: an unsorted, overlapping input and a result of two segments.
C2_Witness ==
    /\ Returned
    /\ ~SortedByStartAsc(InputDates)
    /\ HasOverlap(InputDates)
    /\ Len(result) = 2

\* C3: every returned interval lies inside [start_date, end_date], and an
\* input interval wholly before start_date or wholly after end_date changes
\* nothing: the result is the one for the list without it.
C3_ResultInsideWindow ==
    (Returned /\ NonEmptyWindow)
    => /\ InsideWindow(result)
       /\ \A n \in 1..Len(periods) :
              (\/ ~DateGT(InputDates[n][2], start_date)
               \/ ~DateLT(InputDates[n][1], end_date))
              => result = complement_periods(Without(periods, n),
                                             start_date, end_date)

\* C4: for overlapping input intervals the union of the inputs is what is
\* covered: the returned intervals are exactly the months of the window
\* that no input interval contains.
C4_OverlapsMerged ==
    (Returned /\ NonEmptyWindow /\ HasOverlap(InputDates))
    => Covered(result) = WindowPoints \ Covered(InputDates)

\* C5: the result does not depend on the order of the input list: every
\* rearrangement of the list, the one sorted by start among them, gives
\* the list this call returns.
C5_OrderIndependent ==
    Returned
    => \A q \in Rearrangements(periods) :
           complement_periods(q, start_date, end_date) = result

\* C5 witness: an input that is not sorted by start and a non-empty result.
C5_Witness ==
    /\ Returned
    /\ Len(periods) >= 2
    /\ ~SortedByStartAsc(InputDates)
    /\ result # <<>>

\* C6: for an empty input list and start_date < end_date the result is the
\* one interval (start_date, end_date).
C6_EmptyInputGivesWindow ==
    (Returned /\ periods = <<>> /\ NonEmptyWindow)
    => result = << <<start_date, end_date>> >>

\* C6 witness: a returned call on the empty list with a non-empty window.
C6_Witness ==
    /\ Returned
    /\ periods = <<>>
    /\ NonEmptyWindow
    /\ Len(result) = 1

\* C7: when the union of the input intervals covers the entire window, the
\* result is the empty list.
C7_CoveredWindowGivesEmpty ==
    (Returned /\ NonEmptyWindow /\ WindowPoints \subseteq Covered(InputDates))
    => result = <<>>

\* whether the encoding decodes to a month of the calendar
ValidMonth(lit) == lit.mm \in 1..12

\* the endpoints of the input list
Endpoints == {periods[n][e] : n \in 1..Len(periods), e \in 1..2}

\* C8: every encoding YYYY.MM with MM in 1..12 decodes to the first day of
\* month MM of year YYYY (2005.10 to October 2005, 2005.01 to January
\* 2005), and the default window decodes to 2000-01-01 and 2030-08-01.
C8_DecodesYearAndMonth ==
    (pc # "call" /\ \A lit \in Endpoints : ValidMonth(lit))
    => /\ pc # "raised"
       /\ periods_dt = << <<datetime(periods[1][1].year, periods[1][1].mm, 1),
                            datetime(periods[1][2].year, periods[1][2].mm, 1)>> >>
       /\ start_date = datetime(2000, 1, 1)
       /\ end_date = datetime(2030, 8, 1)

\* C8 witness: 2005.10 has been decoded, to October, and 2005.01 to January.
C8_Witness ==
    /\ pc = "loop"
    /\ periods = << <<YM(2005, 1), YM(2005, 10)>> >>
    /\ periods_dt[1][1].month = 1
    /\ periods_dt[1][2].month = 10

\* C9: an encoding whose month digits are not in 1..12 makes the decoder
\* raise, never return a date, and the call of _complement_periods that
\* decodes it ends with that error and returns nothing.
C9_InvalidMonthRaises ==
    /\ \A lit \in Endpoints : ~ValidMonth(lit) => DateOfLiteral(lit) = ValueError
    /\ (pc # "call" /\ \E lit \in Endpoints : ~ValidMonth(lit))
       => /\ pc = "raised"
          /\ periods_dt = <<>>
          /\ complement = <<>>
          /\ result = None

\* C9 witness: the call has raised on an endpoint with month digits 13.
C9_Witness ==
    /\ pc = "raised"
    /\ \E lit \in Endpoints : lit.mm = 13

\* the days of the default window, on the axis of the plot
WindowDays ==
    calculate_days_since_reference(datetime(2000, 1, 1), reference_date)
    .. (calculate_days_since_reference(datetime(2030, 8, 1), reference_date) - 1)

SpansAt(d) == {n \in 1..Len(spans) : spans[n].lo <= d /\ d < spans[n].hi}

\* C10: in each scenario _complement_periods runs with the window
\* (2000-01-01, 2030-08-01), and once both shadings of a panel are drawn,
\* every day of that window lies in exactly one span, red or green, no span
\* reaches outside the window, the red spans are the returned intervals and
\* the green spans are the scenario's alignment intervals.
C10_ScenarioShadingTilesWindow ==
    /\ (scen \in 1..NumScenarios /\ pc \in {"loop", "returned"})
       => /\ start_date = datetime(2000, 1, 1)
          /\ end_date = datetime(2030, 8, 1)
    /\ pc \in {"terms", "legend", "done"}
       => /\ \A d \in WindowDays : Cardinality(SpansAt(d)) = 1
          /\ \A n \in 1..Len(spans) : {spans[n].lo, spans[n].hi - 1} \subseteq WindowDays
          /\ Len(spans) = Len(result) + Len(consistent_periods(scen))
          /\ \A n \in 1..Len(spans) :
                 spans[n].color = IF n <= Len(result) THEN INCONSISTENT_COLOR
                                  ELSE CONSISTENT_COLOR

\* C10 witness: the fourth panel is drawn, with red and green spans.
C10_Witness ==
    /\ pc = "done"
    /\ scen = NumScenarios
    /\ \E n \in 1..Len(spans) : spans[n].color = INCONSISTENT_COLOR
    /\ \E n \in 1..Len(spans) : spans[n].color = CONSISTENT_COLOR

====
